---- MODULE Spec2Model ----
(***************************************************************************)
(* Model of the CoT UDP proxy (src/src/main.rs): the allowlist matcher     *)
(* ProxyConfig::is_allowed_host, the configuration constructor             *)
(* ProxyConfig::new, and the request handler handle_request run by one     *)
(* task per connection.                                                    *)
(*                                                                         *)
(* A string is a sequence of one-character strings, so that split, trim,   *)
(* contains, parse and format are computed character by character.         *)
(***************************************************************************)
EXTENDS Integers, Sequences, FiniteSets, TLC

VARIABLES allowed_hosts, candidate, verdict, req, pc, resp, io, udp_out

vars == <<allowed_hosts, candidate, verdict, req, pc, resp, io, udp_out>>

(***************************************************************************)
(* Bounds of the model.                                                    *)
(***************************************************************************)
MaxPatterns == 2
MaxNetSegs == 6
MaxIpSegs == 4
MaxReqs == 2
MaxBody == 2
MaxPortLen == 5

(***************************************************************************)
(* Strings.                                                                *)
(***************************************************************************)
RECURSIVE Concat(_)
Concat(ss) == IF ss = <<>> THEN <<>> ELSE Head(ss) \o Concat(Tail(ss))

RECURSIVE Join(_, _)
Join(ss, sep) ==
    IF ss = <<>> THEN <<>>
    ELSE IF Len(ss) = 1 THEN ss[1]
    ELSE ss[1] \o <<sep>> \o Join(Tail(ss), sep)

Contains(s, c) == \E i \in 1..Len(s) : s[i] = c

\* str::split(char): one piece more than there are separators, so the empty
\* string splits into one empty piece.
RECURSIVE SplitFrom(_, _, _)
SplitFrom(s, c, cur) ==
    IF s = <<>> THEN <<cur>>
    ELSE IF Head(s) = c THEN <<cur>> \o SplitFrom(Tail(s), c, <<>>)
    ELSE SplitFrom(Tail(s), c, Append(cur, Head(s)))

Split(s, c) == SplitFrom(s, c, <<>>)

RECURSIVE TrimStart(_)
TrimStart(s) ==
    IF s # <<>> /\ Head(s) = " " THEN TrimStart(Tail(s)) ELSE s

RECURSIVE TrimEnd(_)
TrimEnd(s) ==
    IF s # <<>> /\ s[Len(s)] = " " THEN TrimEnd(SubSeq(s, 1, Len(s) - 1)) ELSE s

Trim(s) == TrimEnd(TrimStart(s))

MapTrim(ss) == [i \in 1..Len(ss) |-> Trim(ss[i])]

(***************************************************************************)
(* ProxyConfig.  allowed_hosts is an Option<Vec<String>>.                  *)
(***************************************************************************)
None == [some |-> FALSE, val |-> <<>>]
Some(v) == [some |-> TRUE, val |-> v]

\* ProxyConfig::new: the environment variable, when set, is split at commas
\* and every piece is trimmed.
ProxyConfig_new(env) ==
    IF env.some THEN Some(MapTrim(Split(env.val, ","))) ELSE None

\* The loop body with the guard of the written rule: two network segments
\* are enough and the candidate needs only as many segments as the prefix.
match_pattern_loose_guard(allowed_pattern, ip) ==
    IF allowed_pattern = ip THEN "true"
    ELSE IF Contains(allowed_pattern, "/") THEN
        LET parts == Split(allowed_pattern, "/") IN
        IF Len(parts) = 2 THEN
            LET network == parts[1]
                network_parts == Split(network, ".")
                ip_parts == Split(ip, ".")
            IN  IF Len(network_parts) >= 2 /\ Len(ip_parts) >= Len(network_parts) - 1 THEN
                    LET prefix == SubSeq(network_parts, 1, Len(network_parts) - 1)
                        ip_prefix == SubSeq(ip_parts, 1, Len(prefix))
                    IN  IF prefix = ip_prefix THEN "true" ELSE "next"
                ELSE "next"
        ELSE "next"
    ELSE "next"

\* One pattern of the loop body: "true" when the pattern lets the candidate
\* in, "next" when the loop goes on, "panic" when the slice
\* ip_parts[..prefix.len()] is out of range.
match_pattern(allowed_pattern, ip) ==
    IF allowed_pattern = ip THEN "true"
    ELSE IF Contains(allowed_pattern, "/") THEN
        LET parts == Split(allowed_pattern, "/") IN
        IF Len(parts) = 2 THEN
            LET network == parts[1]
                network_parts == Split(network, ".")
                ip_parts == Split(ip, ".")
            IN  IF Len(network_parts) >= 3 /\ Len(ip_parts) = 4 THEN
                    LET prefix == SubSeq(network_parts, 1, Len(network_parts) - 1)
                    IN  IF Len(prefix) > Len(ip_parts) THEN "panic"
                        ELSE LET ip_prefix == SubSeq(ip_parts, 1, Len(prefix))
                             IN  IF prefix = ip_prefix THEN "true" ELSE "next"
                ELSE "next"
        ELSE "next"
    ELSE "next"

\* The for loop over the allowlist, with its early returns.
RECURSIVE for_allowed(_, _)
for_allowed(allowed, ip) ==
    IF allowed = <<>> THEN "false"
    ELSE LET r == match_pattern(Head(allowed), ip)
         IN  IF r = "next" THEN for_allowed(Tail(allowed), ip) ELSE r

\* ProxyConfig::is_allowed_host: "true", "false", or "panic" when the call
\* unwinds instead of returning.
is_allowed_host(config, ip) ==
    IF ~config.some THEN "true" ELSE for_allowed(config.val, ip)

(***************************************************************************)
(* Input sets of the matcher.                                              *)
(***************************************************************************)
One == <<"1">>
Two == <<"2">>

\* Dotted strings of n segments: all segments "1", or one of them "2".
Dotted(n) ==
    { Join([i \in 1..n |-> One], ".") } \cup
    { Join([i \in 1..n |-> IF i = j THEN Two ELSE One], ".") : j \in 1..n }

Ones(n) == Join([i \in 1..n |-> One], ".")

Suffixes == { <<>>, <<"/", "8">>, <<"/", "8", "/", "8">> }

\* A candidate and a pattern with an empty segment: "1..1.2", "1..1.1/8".
EmptySegHost == <<"1", ".", ".", "1", ".", "2">>
EmptySegPattern == <<"1", ".", ".", "1", ".", "1", "/", "8">>

Hosts == UNION { Dotted(n) : n \in 1..MaxIpSegs } \cup { <<>>, EmptySegHost }

Patterns ==
    { Ones(n) \o s : n \in 1..MaxNetSegs, s \in Suffixes } \cup { <<>>, EmptySegPattern }

PatternLists == UNION { [1..n -> Patterns] : n \in 1..MaxPatterns }

\* The values of ALLOWED_UDP_HOSTS: unset, or the patterns joined by commas.
EnvValues == { None } \cup { Some(Join(l, ",")) : l \in PatternLists }

NoCall == <<"?">>

(***************************************************************************)
(* Requests and responses.                                                 *)
(***************************************************************************)
\* A header value that is not visible ASCII holds this character.
NonAscii == "\\x80"

\* HeaderValue::to_str().ok()
to_str(v) == IF Contains(v, NonAscii) THEN None ELSE Some(v)

and_then_to_str(h) == IF h.some THEN to_str(h.val) ELSE None

DEFAULT_HOST == <<"1", "2", "7", ".", "0", ".", "0", ".", "1">>
DEFAULT_PORT == 8087
U16_MAX == 65535

Digits == <<"0", "1", "2", "3", "4", "5", "6", "7", "8", "9">>
IsDigit(c) == \E d \in 1..10 : Digits[d] = c
DigitVal(c) == (CHOOSE d \in 1..10 : Digits[d] = c) - 1

\* A digit loop that wraps at 16 bits instead of failing.
RECURSIVE parse_digits_wrapping(_, _)
parse_digits_wrapping(s, acc) ==
    IF s = <<>> THEN Some(acc)
    ELSE IF ~IsDigit(Head(s)) THEN None
    ELSE parse_digits_wrapping(Tail(s), (acc * 10 + DigitVal(Head(s))) % (U16_MAX + 1))

\* The digit loop of u16::from_str: None at a character that is no digit and
\* at a value above u16::MAX.
RECURSIVE parse_digits(_, _)
parse_digits(s, acc) ==
    IF s = <<>> THEN Some(acc)
    ELSE IF ~IsDigit(Head(s)) THEN None
    ELSE LET v == acc * 10 + DigitVal(Head(s))
         IN  IF v > U16_MAX THEN None ELSE parse_digits(Tail(s), v)

\* str::parse::<u16>().ok(): an empty string and a lone sign do not parse,
\* one leading "+" is skipped, "-" is no digit of an unsigned type.
parse_u16(s) ==
    IF s = <<>> THEN None
    ELSE IF Len(s) = 1 /\ Head(s) \in {"+", "-"} THEN None
    ELSE IF Head(s) = "+" THEN parse_digits(Tail(s), 0)
    ELSE parse_digits(s, 0)

unwrap_or(o, d) == IF o.some THEN o.val ELSE d

\* u16 Display, as format!("{}", udp_port) prints it.
RECURSIVE to_decimal(_)
to_decimal(n) ==
    IF n < 10 THEN <<Digits[n + 1]>>
    ELSE Append(to_decimal(n \div 10), Digits[(n % 10) + 1])

udp_host_of(q) == unwrap_or(and_then_to_str(q.host), DEFAULT_HOST)

udp_port_of(q) ==
    LET s == and_then_to_str(q.port)
    IN  unwrap_or(IF s.some THEN parse_u16(s.val) ELSE None, DEFAULT_PORT)

\* format!("{}:{}", udp_host, udp_port)
destination_of(q) == udp_host_of(q) \o <<":">> \o to_decimal(udp_port_of(q))

\* Response::builder() with the three CORS headers.
\* The headers are a set of <<name, value>> pairs.
response_builder ==
    { <<"access-control-allow-origin", "*">>,
      <<"access-control-allow-methods", "POST, OPTIONS">>,
      <<"access-control-allow-headers", "Content-Type, X-UDP-Host, X-UDP-Port">> }

\* A builder that loses its headers on the error paths.
Response_bare_errors(builder, status, content_type, body) ==
    [ status |-> status,
      headers |-> (IF status >= 400 THEN {} ELSE builder) \cup
                  (IF content_type = "none" THEN {} ELSE { <<"content-type", content_type>> }),
      body |-> body ]

\* response_builder.status(..).header(CONTENT_TYPE, ..).body(..)
Response(builder, status, content_type, body) ==
    [ status |-> status,
      headers |-> builder \cup
                  (IF content_type = "none" THEN {} ELSE { <<"content-type", content_type>> }),
      body |-> body ]

EmptyBody == [ kind |-> "empty" ]
HealthResponse ==
    [ kind |-> "health", status |-> "running", service |-> "CoT UDP Proxy",
      version |-> "1.0.0" ]
ErrorResponse(msg) == [ kind |-> "error", success |-> FALSE, error |-> msg ]
SuccessResponse(dest, size) ==
    [ kind |-> "success", success |-> TRUE, destination |-> dest, size |-> size ]

JSON == "application/json"
NoContentType == "none"

(***************************************************************************)
(* handle_request.                                                         *)
(***************************************************************************)
\* A router that sends every method but OPTIONS on /cot to the relay.
route_any_method(q) ==
    IF q.method = "OPTIONS" THEN "preflight"
    ELSE IF q.method = "GET" /\ q.path = "/" THEN "health"
    ELSE IF q.path = "/cot" THEN "relay"
    ELSE "not_found"

\* The three tests on method and path, in the order of the code.
route(q) ==
    IF q.method = "OPTIONS" THEN "preflight"
    ELSE IF q.method = "GET" /\ q.path = "/" THEN "health"
    ELSE IF q.method = "POST" /\ q.path = "/cot" THEN "relay"
    ELSE "not_found"

\* The two validations in the other order: the port before the allowlist.
validate_port_first(q, config) ==
    LET udp_host == udp_host_of(q)
        udp_port == udp_port_of(q)
        allowed == is_allowed_host(config, udp_host)
    IN  IF udp_port < 1 THEN "invalid_port"
        ELSE IF allowed = "panic" THEN "panic"
        ELSE IF allowed # "true" THEN "forbidden"
        ELSE "valid"

\* The two validations of POST /cot, before the body is read.
validate(q, config) ==
    LET udp_host == udp_host_of(q)
        udp_port == udp_port_of(q)
        allowed == is_allowed_host(config, udp_host)
    IN  IF allowed = "panic" THEN "panic"
        ELSE IF allowed # "true" THEN "forbidden"
        ELSE IF udp_port < 1 THEN "invalid_port"
        ELSE "valid"

MsgNotAllowed ==
    "UDP destination not allowed. Configure ALLOWED_UDP_HOSTS environment variable."
MsgInvalidPort == "Invalid UDP port number"
MsgNotFound == "Not found"
MsgReadError == "Error reading body"
MsgBindError == "Error creating UDP socket"
MsgSendError == "UDP send error"

\* handle_request up to its first await: a response, "await" at
\* body.collect().await, or "panic".
handle_request_head(q, config) ==
    LET where == route(q) IN
    IF where = "preflight" THEN
        [ kind |-> "respond",
          response |-> Response(response_builder, 200, NoContentType, EmptyBody) ]
    ELSE IF where = "health" THEN
        [ kind |-> "respond",
          response |-> Response(response_builder, 200, JSON, HealthResponse) ]
    ELSE IF where = "relay" THEN
        LET v == validate(q, config) IN
        IF v = "panic" THEN [ kind |-> "panic" ]
        ELSE IF v = "forbidden" THEN
            [ kind |-> "respond",
              response |-> Response(response_builder, 403, JSON, ErrorResponse(MsgNotAllowed)) ]
        ELSE IF v = "invalid_port" THEN
            [ kind |-> "respond",
              response |-> Response(response_builder, 400, JSON, ErrorResponse(MsgInvalidPort)) ]
        ELSE [ kind |-> "await" ]
    ELSE
        [ kind |-> "respond",
          response |-> Response(response_builder, 404, JSON, ErrorResponse(MsgNotFound)) ]

\* A send of the first byte of the body only.
datagram_first_byte(r, q) ==
    [ from |-> r, host |-> udp_host_of(q), port |-> udp_port_of(q),
      destination |-> destination_of(q),
      payload |-> IF q.body = <<>> THEN <<>> ELSE <<q.body[1]>> ]

\* The datagram of socket.send_to(&body_bytes, &destination).
datagram(r, q) ==
    [ from |-> r, host |-> udp_host_of(q), port |-> udp_port_of(q),
      destination |-> destination_of(q), payload |-> q.body ]

\* A send that drops a datagram equal to one already sent to the same place.
send_to_dedup(wire, d) ==
    IF \E i \in 1..Len(wire) :
          wire[i].destination = d.destination /\ wire[i].payload = d.payload
    THEN wire
    ELSE Append(wire, d)

\* One send on a fresh socket: the datagram joins those on the wire.
send_to(wire, d) == Append(wire, d)

Slots == 1..MaxReqs

NoRequest ==
    [ method |-> "-", path |-> "-", host |-> None, port |-> None, body |-> <<>> ]

\* Task r is handed a request q of Q and runs handle_request to its first
\* await.
Begin(r, Q) ==
    /\ pc[r] = "idle"
    /\ \E q \in Q :
        /\ req' = [req EXCEPT ![r] = q]
        /\ LET h == handle_request_head(q, allowed_hosts) IN
            /\ pc' = [pc EXCEPT ![r] =
                        IF h.kind = "respond" THEN "done"
                        ELSE IF h.kind = "await" THEN "reading" ELSE "panicked"]
            /\ resp' = [resp EXCEPT ![r] =
                        IF h.kind = "respond" THEN Append(@, h.response) ELSE @]
    /\ UNCHANGED <<allowed_hosts, candidate, verdict, io, udp_out>>

\* body.collect().await returns Err.
BodyReadErr(r) ==
    /\ pc[r] = "reading"
    /\ pc' = [pc EXCEPT ![r] = "done"]
    /\ io' = [io EXCEPT ![r] = "read_err"]
    /\ resp' = [resp EXCEPT ![r] =
            Append(@, Response(response_builder, 500, JSON, ErrorResponse(MsgReadError)))]
    /\ UNCHANGED <<allowed_hosts, candidate, verdict, req, udp_out>>

\* The body is read and UdpSocket::bind returns Err.
BindErr(r) ==
    /\ pc[r] = "reading"
    /\ pc' = [pc EXCEPT ![r] = "done"]
    /\ io' = [io EXCEPT ![r] = "bind_err"]
    /\ resp' = [resp EXCEPT ![r] =
            Append(@, Response(response_builder, 500, JSON, ErrorResponse(MsgBindError)))]
    /\ UNCHANGED <<allowed_hosts, candidate, verdict, req, udp_out>>

\* The body is read, the socket is bound and send_to returns Err.
SendErr(r) ==
    /\ pc[r] = "reading"
    /\ pc' = [pc EXCEPT ![r] = "done"]
    /\ io' = [io EXCEPT ![r] = "send_err"]
    /\ resp' = [resp EXCEPT ![r] =
            Append(@, Response(response_builder, 500, JSON, ErrorResponse(MsgSendError)))]
    /\ UNCHANGED <<allowed_hosts, candidate, verdict, req, udp_out>>

\* The body is read, the socket is bound and send_to returns Ok.
SendOk(r) ==
    /\ pc[r] = "reading"
    /\ pc' = [pc EXCEPT ![r] = "done"]
    /\ io' = [io EXCEPT ![r] = "sent"]
    /\ udp_out' = send_to(udp_out, datagram(r, req[r]))
    /\ resp' = [resp EXCEPT ![r] =
            Append(@, Response(response_builder, 200, JSON,
                               SuccessResponse(destination_of(req[r]), Len(req[r].body))))]
    /\ UNCHANGED <<allowed_hosts, candidate, verdict, req>>

(***************************************************************************)
(* Inputs of the server.                                                   *)
(***************************************************************************)
Str(t) == [i \in 1..Len(t) |-> t[i]]

HostA == <<"1", ".", "1", ".", "1", ".", "2">>
HostB == <<"1", ".", "1", ".", "2", ".", "1">>
Net24 == <<"1", ".", "1", ".", "1", ".", "0", "/", "2", "4">>
Net6Segs == <<"1", ".", "1", ".", "1", ".", "1", ".", "1", ".", "1", "/", "8">>
Zero == <<"0">>

Bytes == { 0, 255 }
Bodies == UNION { [1..n -> Bytes] : n \in 0..MaxBody }

\* The environments the server is started in.
ServerEnvs ==
    { None,
      Some(Net24),
      Some(HostB \o <<",", " ">> \o Net24 \o <<" ">>),
      Some(HostA \o <<",">> \o Net6Segs) }

\* The requests of the concurrent specification.
Requests ==
    [ method : {"OPTIONS", "GET", "PUT"}, path : {"/", "/cot"},
      host : {None}, port : {None}, body : {<<>>} ]
    \cup
    [ method : {"POST"}, path : {"/"}, host : {None}, port : {None}, body : {<<>>} ]
    \cup
    [ method : {"POST"}, path : {"/cot"}, host : {None, Some(HostA), Some(HostB)},
      port : {None, Some(Zero)}, body : {<<>>, <<255>>} ]

InitServer ==
    /\ candidate = NoCall
    /\ verdict = "none"
    /\ req = [r \in Slots |-> NoRequest]
    /\ pc = [r \in Slots |-> "idle"]
    /\ resp = [r \in Slots |-> <<>>]
    /\ io = [r \in Slots |-> "none"]
    /\ udp_out = <<>>

Init ==
    /\ \E env \in ServerEnvs : allowed_hosts = ProxyConfig_new(env)
    /\ InitServer

Next ==
    \E r \in Slots :
        \/ Begin(r, Requests)
        \/ BodyReadErr(r)
        \/ BindErr(r)
        \/ SendErr(r)
        \/ SendOk(r)

Spec == Init /\ [][Next]_vars

(***************************************************************************)
(* One request at a time, drawn from a wider set of requests.              *)
(***************************************************************************)
PortChars == { "0", "3", "5", "6", "+", "-" }
PortStrings == UNION { [1..n -> PortChars] : n \in 0..MaxPortLen }

Opaque == <<NonAscii>>
Nine == <<"9">>

OneEnvs ==
    { None,
      Some(HostB \o <<",", " ">> \o Net24 \o <<" ">>),
      Some(HostA \o <<",">> \o Net6Segs) }

OneRequests ==
    [ method : {"OPTIONS", "GET", "POST", "PUT"}, path : {"/", "/cot", "/x"},
      host : {None, Some(HostA), Some(HostB), Some(Opaque)},
      port : {None, Some(Zero), Some(Nine), Some(Opaque)},
      body : Bodies ]
    \cup
    [ method : {"POST"}, path : {"/cot"}, host : {None},
      port : { Some(t) : t \in PortStrings }, body : {<<>>} ]

InitOne ==
    /\ \E env \in OneEnvs : allowed_hosts = ProxyConfig_new(env)
    /\ InitServer

NextOne ==
    \/ Begin(1, OneRequests)
    \/ BodyReadErr(1)
    \/ BindErr(1)
    \/ SendErr(1)
    \/ SendOk(1)

SpecOne == InitOne /\ [][NextOne]_vars

(***************************************************************************)
(* The matcher alone: is_allowed_host called on any candidate under any    *)
(* configuration.                                                          *)
(***************************************************************************)
InitMatcher ==
    /\ \E env \in EnvValues : allowed_hosts = ProxyConfig_new(env)
    /\ InitServer

Call(h) ==
    /\ candidate = NoCall
    /\ candidate' = h
    /\ verdict' = is_allowed_host(allowed_hosts, h)
    /\ UNCHANGED <<allowed_hosts, req, pc, resp, io, udp_out>>

NextMatcher == \E h \in Hosts : Call(h)

SpecMatcher == InitMatcher /\ [][NextMatcher]_vars

(***************************************************************************)
(* Properties of the matcher, under SpecMatcher.                           *)
(***************************************************************************)
Called == candidate # NoCall

CountChar(s, c) == Cardinality({ i \in 1..Len(s) : s[i] = c })

\* The text of a pattern before its first '/'.
NetworkPart(p) ==
    IF Contains(p, "/")
    THEN SubSeq(p, 1, (CHOOSE i \in 1..Len(p) : p[i] = "/" /\ \A j \in 1..(i - 1) : p[j] # "/") - 1)
    ELSE p

\* The matching rule as the specification words it.
RuleMatches(p, h) ==
    \/ p = h
    \/ /\ Contains(p, "/")
       /\ LET ns == Split(NetworkPart(p), ".")
              hs == Split(h, ".")
              k == Len(ns) - 1
          IN  /\ Len(ns) >= 2
              /\ Len(hs) >= k
              /\ \A i \in 1..k : ns[i] = hs[i]

RuleAllows(config, h) ==
    ~config.some \/ \E i \in 1..Len(config.val) : RuleMatches(config.val[i], h)

\* C5 as claimed: is_allowed_host returns the result of the specification's
\* matching rule (any '/', at least 2 network segments, at least k candidate
\* segments).
C5_ReturnsSpecRule ==
    Called => verdict = (IF RuleAllows(allowed_hosts, candidate) THEN "true" ELSE "false")

\* The matching rule the code has: exactly one '/', 3 to 5 network segments,
\* exactly 4 candidate segments.
CodeMatches(p, h) ==
    \/ p = h
    \/ /\ CountChar(p, "/") = 1
       /\ LET ns == Split(NetworkPart(p), ".")
              hs == Split(h, ".")
          IN  /\ Len(ns) \in 3..5
              /\ Len(hs) = 4
              /\ \A i \in 1..(Len(ns) - 1) : ns[i] = hs[i]

\* The patterns at which the call panics: exactly one '/', 6 or more network
\* segments, a candidate of exactly 4 segments that the pattern does not equal.
CodeAborts(p, h) ==
    /\ p # h
    /\ CountChar(p, "/") = 1
    /\ Len(Split(NetworkPart(p), ".")) >= 6
    /\ Len(Split(h, ".")) = 4

\* C5 as amended: with no list the result is true; otherwise the patterns are
\* tried in list order, the result is true when a pattern that matches by the
\* code's rule comes before any pattern that panics, the call panics when a
\* panicking pattern comes before any matching one, and the result is false
\* when no pattern does either.
C5_ReturnsCodeRule ==
    Called =>
        IF ~allowed_hosts.some THEN verdict = "true"
        ELSE LET l == allowed_hosts.val
                 hits == { i \in 1..Len(l) : CodeMatches(l[i], candidate) }
                 aborts == { i \in 1..Len(l) : CodeAborts(l[i], candidate) }
             IN  /\ verdict = "true" <=>
                        \E i \in hits : \A j \in aborts : i < j
                 /\ verdict = "panic" <=>
                        \E j \in aborts : \A i \in hits : j < i
                 /\ verdict = "false" <=> (hits = {} /\ aborts = {})

\* A candidate of four segments let in by prefix comparison alone.
C5_Witness ==
    /\ Called
    /\ allowed_hosts.some
    /\ verdict = "true"
    /\ Len(Split(candidate, ".")) = 4
    /\ \A i \in 1..Len(allowed_hosts.val) : allowed_hosts.val[i] # candidate

\* C6: for every candidate and every pattern list the call completes and
\* returns a boolean; no pattern, however malformed, makes it raise an error.
C6_NeverRaises == Called => verdict \in {"true", "false"}

Perms(l) ==
    { [i \in 1..Len(l) |-> l[f[i]]] :
        f \in { g \in [1..Len(l) -> 1..Len(l)] : \A a, b \in 1..Len(l) : g[a] = g[b] => a = b } }

\* C9: every permutation of the pattern list gives the outcome the list
\* itself gave.
C9_OrderIndependent ==
    (Called /\ allowed_hosts.some) =>
        \A l \in Perms(allowed_hosts.val) : is_allowed_host(Some(l), candidate) = verdict

(***************************************************************************)
(* Properties of the server, under Spec and SpecOne.                       *)
(***************************************************************************)
IsRelay(q) == q.method = "POST" /\ q.path = "/cot"

Answered(r, st) == pc[r] = "done" /\ Len(resp[r]) = 1 /\ resp[r][1].status = st

FromTask(r) == SelectSeq(udp_out, LAMBDA d : d.from = r)

\* The destination host as the specification resolves it: the header's
\* value, or 127.0.0.1 when the header is absent.
ResolvedHost(q) == IF q.host.some THEN q.host.val ELSE DEFAULT_HOST

C2_RouterRules ==
    \A r \in Slots : pc[r] # "idle" =>
        LET q == req[r] IN
        /\ q.method = "OPTIONS" =>
              /\ Answered(r, 200)
              /\ resp[r][1].body = EmptyBody
              /\ io[r] = "none"
        /\ (q.method = "GET" /\ q.path = "/") =>
              (Answered(r, 200) /\ resp[r][1].body = HealthResponse)
        /\ IsRelay(q) =>
              \/ pc[r] \in {"reading", "panicked"}
              \/ /\ Len(resp[r]) = 1
                 /\ resp[r][1].status \in {400, 403, 500}
              \/ /\ Answered(r, 200)
                 /\ resp[r][1].body.kind = "success"
        /\ ( /\ q.method # "OPTIONS"
             /\ ~(q.method = "GET" /\ q.path = "/")
             /\ ~IsRelay(q) ) =>
              /\ Answered(r, 404)
              /\ resp[r][1].body = [kind |-> "error", success |-> FALSE, error |-> "Not found"]
        /\ ~IsRelay(q) => FromTask(r) = <<>>

\* OPTIONS /cot, with a destination header and a body, answered as a preflight.
C2_Witness ==
    \E r \in Slots :
        /\ Answered(r, 200)
        /\ req[r].method = "OPTIONS"
        /\ req[r].path = "/cot"
        /\ req[r].host.some
        /\ req[r].body # <<>>

\* C3: a finished POST /cot has status 200 exactly when one datagram with
\* the whole body went to host:port, its response then names "<host>:<port>"
\* and the body's length; a failed bind or send gives 500; and no request
\* has more than one datagram.
C3_OneDatagramPerSuccess ==
    \A r \in Slots : (pc[r] = "done" /\ IsRelay(req[r])) =>
        LET q == req[r]
            mine == FromTask(r)
        IN  /\ Len(resp[r]) = 1
            /\ Len(mine) <= 1
            /\ resp[r][1].status = 200 <=>
                  /\ Len(mine) = 1
                  /\ mine[1].payload = q.body
                  /\ mine[1].host = udp_host_of(q)
                  /\ mine[1].port = udp_port_of(q)
            /\ resp[r][1].status = 200 =>
                  /\ resp[r][1].body.destination =
                        mine[1].host \o <<":">> \o to_decimal(mine[1].port)
                  /\ parse_u16(to_decimal(mine[1].port)) = Some(mine[1].port)
                  /\ resp[r][1].body.size = Len(q.body)
                  /\ resp[r][1].body.success
            /\ io[r] \in {"bind_err", "send_err"} => resp[r][1].status = 500

\* A two-byte body sent to a destination both headers name.
C3_Witness ==
    \E r \in Slots :
        /\ Answered(r, 200)
        /\ IsRelay(req[r])
        /\ req[r].host = Some(HostA)
        /\ req[r].port = Some(Nine)
        /\ Len(req[r].body) = 2
        /\ Len(FromTask(r)) = 1

\* The number a string of decimal digits writes.
RECURSIVE Pow10(_)
Pow10(n) == IF n = 0 THEN 1 ELSE 10 * Pow10(n - 1)

RECURSIVE SumTo(_, _)
SumTo(ds, n) ==
    IF n = 0 THEN 0
    ELSE SumTo(ds, n - 1) + DigitVal(ds[n]) * Pow10(Len(ds) - n)

Unsigned(s) == IF s # <<>> /\ Head(s) = "+" THEN Tail(s) ELSE s

\* The header text is an unsigned 16-bit integer: digits only, after at most
\* one leading "+", writing a number of at most 65535.
IsU16Text(s) ==
    /\ Unsigned(s) # <<>>
    /\ \A i \in 1..Len(Unsigned(s)) : IsDigit(Unsigned(s)[i])
    /\ SumTo(Unsigned(s), Len(Unsigned(s))) <= 65535

ExpectedPort(q) ==
    IF q.port.some /\ IsU16Text(q.port.val)
    THEN SumTo(Unsigned(q.port.val), Len(Unsigned(q.port.val)))
    ELSE 8087

\* C4: the port of a POST /cot is the header's number when the header is an
\* unsigned 16-bit integer and 8087 otherwise; a request with an allowed host
\* is answered 400 exactly when that number is 0, which only a header that
\* writes 0 gives, and a request answered 400 sends nothing.
C4_PortResolution ==
    \A r \in Slots : (pc[r] # "idle" /\ IsRelay(req[r])) =>
        LET q == req[r]
            e == ExpectedPort(q)
        IN  /\ udp_port_of(q) = e
            /\ \A i \in 1..Len(FromTask(r)) : FromTask(r)[i].port = e
            /\ is_allowed_host(allowed_hosts, udp_host_of(q)) = "true" =>
                  (Answered(r, 400) <=> e = 0)
            /\ (Len(resp[r]) = 1 /\ resp[r][1].status = 400) =>
                  /\ FromTask(r) = <<>>
                  /\ q.port.some
                  /\ IsU16Text(q.port.val)
                  /\ e = 0

\* The header "+00" with an allowed host, answered 400.
C4_Witness ==
    \E r \in Slots :
        /\ Answered(r, 400)
        /\ IsRelay(req[r])
        /\ req[r].port = Some(<<"+", "0", "0">>)
        /\ is_allowed_host(allowed_hosts, udp_host_of(req[r])) = "true"

\* C7: every response of every task carries the three CORS headers.
C7_CorsOnEveryResponse ==
    \A r \in Slots : \A i \in 1..Len(resp[r]) :
        /\ <<"access-control-allow-origin", "*">> \in resp[r][i].headers
        /\ <<"access-control-allow-methods", "POST, OPTIONS">> \in resp[r][i].headers
        /\ <<"access-control-allow-headers", "Content-Type, X-UDP-Host, X-UDP-Port">>
              \in resp[r][i].headers

\* A 500 after a failed send, with its CORS headers.
C7_Witness ==
    \E r \in Slots :
        /\ Answered(r, 500)
        /\ io[r] = "send_err"
        /\ <<"access-control-allow-origin", "*">> \in resp[r][1].headers

\* What one request gives on its own: its response and its datagrams, from
\* the request, the configuration and the results of its own body read, bind
\* and send.
OwnOutcome(r, q, config, env) ==
    LET h == handle_request_head(q, config) IN
    IF h.kind = "respond" THEN [ responses |-> <<h.response>>, datagrams |-> <<>> ]
    ELSE IF h.kind = "panic" THEN [ responses |-> <<>>, datagrams |-> <<>> ]
    ELSE IF env = "sent" THEN
        [ responses |-> << [ status |-> 200,
                             headers |-> response_builder \cup { <<"content-type", JSON>> },
                             body |-> [ kind |-> "success", success |-> TRUE,
                                        destination |-> destination_of(q),
                                        size |-> Len(q.body) ] ] >>,
          datagrams |-> << [ from |-> r, host |-> udp_host_of(q), port |-> udp_port_of(q),
                             destination |-> destination_of(q), payload |-> q.body ] >> ]
    ELSE
        [ responses |-> << [ status |-> 500,
                             headers |-> response_builder \cup { <<"content-type", JSON>> },
                             body |-> [ kind |-> "error", success |-> FALSE,
                                        error |-> CASE env = "read_err" -> MsgReadError
                                                    [] env = "bind_err" -> MsgBindError
                                                    [] OTHER -> MsgSendError ] ] >>,
          datagrams |-> <<>> ]

\* C8: under every interleaving, a finished request has the response and the
\* datagrams its own request, the configuration and its own I/O results
\* give, whatever the other tasks did; the datagrams on the wire are as many
\* as the POST /cot requests answered 200.
C8_RequestsIndependent ==
    /\ \A r \in Slots : pc[r] \in {"done", "panicked"} =>
          LET o == OwnOutcome(r, req[r], allowed_hosts, io[r])
          IN  /\ resp[r] = o.responses
              /\ FromTask(r) = o.datagrams
    /\ Len(udp_out) = Cardinality({ r \in Slots : Answered(r, 200) /\ IsRelay(req[r]) })

\* Two tasks given the same POST /cot, both answered 200, two datagrams out.
C8_Witness ==
    \E r, o \in Slots :
        /\ r # o
        /\ req[r] = req[o]
        /\ IsRelay(req[r])
        /\ Answered(r, 200)
        /\ Answered(o, 200)
        /\ Len(FromTask(r)) = 1
        /\ Len(FromTask(o)) = 1

\* C10: a handler that has ended has given exactly one response, with a
\* status among 200, 400, 403, 404 and 500.
C10_EndsWithOneResponse ==
    \A r \in Slots : pc[r] \in {"done", "panicked"} =>
        /\ Len(resp[r]) = 1
        /\ resp[r][1].status \in {200, 400, 403, 404, 500}

====
